---- MODULE Spec2Model ----
(***************************************************************************)
(* A model of pyutils: classtools.py (StoreInstances, Unique) and          *)
(* events.py (Event, StoredFunc, Master, Slave, SlaveFloat, SlaveInt).     *)
(*                                                                         *)
(* Every method call is synchronous and runs to completion on the caller's *)
(* thread, so a top-level call is one action.  The callbacks a call runs   *)
(* are executed inside the action by the recursive operators CallFrom and  *)
(* Invoke, which work on a record of the objects' fields (the "heap").     *)
(***************************************************************************)
EXTENDS Integers, Sequences, FiniteSets, TLC

(***************************************************************************)
(* Bounds of the model.                                                    *)
(***************************************************************************)
MaxLen == 3   \* listeners one may subscribe to an event from the top level
MaxOps == 4   \* recorded invoke / fire operations on the StoredFunc
MaxSub == 2   \* listeners one may subscribe to each event of the StoredFunc
MaxObj == 4   \* objects ever constructed in the registries

VARIABLES
    callbacks,  \* Event._callbacks of every event, keyed by the event's name
    stored,     \* StoredFunc.stored
    res,        \* StoredFunc.res
    nfun,       \* how often fun() was called; fun() returns 1, 2, 3, ...
    value,      \* Master._value / Slave.value, keyed by the object's name
    master,     \* Slave.master, keyed by the slave's name
    made,       \* the slaves whose constructor has returned normally
    instances,  \* cls._instances, keyed by the class's name
    nextId,     \* identity of the next object object.__new__ allocates
    \* observations of the last top-level operation
    op,         \* [name, arg, obj]: the operation, its argument, its object
    log,        \* the callbacks it invoked, in order
    fired,      \* how often it ran Event.call, per event
    exc,        \* the exception that escaped from it ("none" if none)
    ret,        \* the value it returned
    results,    \* the list it returned, for a function made by access_all
    ename,      \* what the name e denotes: the Event, or None
    \* history
    hist,       \* the invoke / fire operations on the StoredFunc, in order
    born,       \* per class, the instances constructed, in construction order
    dead        \* the instances destroyed

vars == <<callbacks, stored, res, nfun, value, master, made, instances, nextId,
          op, log, fired, exc, ret, results, ename, hist, born, dead>>

(***************************************************************************)
(* Python values.  The numbers are kept exact: a float holds its value in  *)
(* tenths (3.2 is Float(32)), a str holds its text.                        *)
(***************************************************************************)
None == 0

IntV(k) == [t |-> "int", n |-> k, s |-> ""]

FloatV(tenths) == [t |-> "float", n |-> tenths, s |-> ""]

StrV(text) == [t |-> "str", n |-> 0, s |-> text]

NoValue == [t |-> "unset", n |-> 0, s |-> ""]

Values == {IntV(3), FloatV(32), FloatV(-453), StrV("7"), StrV("abc")}

\* The strings int() and float() accept, with the number they denote.
Numeric == [x \in {"7"} |-> 7]

\* Truncation toward zero of a number held in tenths.
Trunc(tenths) == IF tenths >= 0 THEN tenths \div 10 ELSE -((-tenths) \div 10)

\* int(v): [ok, v].  ok is FALSE when int raises ValueError.
ToInt(v) ==
    CASE v.t = "int" -> [ok |-> TRUE, v |-> v]
      [] v.t = "float" -> [ok |-> TRUE, v |-> IntV(Trunc(v.n))]
      [] v.t = "str" /\ v.s \in DOMAIN Numeric ->
            [ok |-> TRUE, v |-> IntV(Numeric[v.s])]
      [] OTHER -> [ok |-> FALSE, v |-> v]

\* float(v): [ok, v].  ok is FALSE when float raises ValueError.
ToFloat(v) ==
    CASE v.t = "float" -> [ok |-> TRUE, v |-> v]
      [] v.t = "int" -> [ok |-> TRUE, v |-> FloatV(10 * v.n)]
      [] v.t = "str" /\ v.s \in DOMAIN Numeric ->
            [ok |-> TRUE, v |-> FloatV(10 * Numeric[v.s])]
      [] OTHER -> [ok |-> FALSE, v |-> v]

(***************************************************************************)
(* Names.                                                                  *)
(***************************************************************************)
Slaves == {"d1", "d2", "di", "df"}

Objs == {"m"} \cup Slaves

\* The class of each slave object.
Kind == [o \in Slaves |->
            CASE o = "di" -> "SlaveInt" [] o = "df" -> "SlaveFloat"
              [] OTHER -> "Slave"]

\* "e": a free-standing Event.  "dep1", "dep2": the events a StoredFunc may
\* watch.  "changed", "cache_cleared": the StoredFunc's own events.  An object
\* name: that Master's or Slave's changed event.
DepEvents == {"dep1", "dep2"}

Events == {"e", "changed", "cache_cleared"} \cup DepEvents \cup Objs

\* The bound method o.change_value, as a callback.
ChangeValueOf == [o \in Slaves |->
    CASE o = "d1" -> "d1.change_value" [] o = "d2" -> "d2.change_value"
      [] o = "di" -> "di.change_value" [] OTHER -> "df.change_value"]

ChangeValues == {ChangeValueOf[o] : o \in Slaves}

SelfOf(f) == CHOOSE o \in Slaves : ChangeValueOf[o] = f

\* User callbacks: "f" and "g" only return; "boom" raises; "off" unsubscribes
\* itself from "e" (e.remove_listener(off)); "refire" fires "dep1".
Plain == {"f", "g"}

UserCallbacks == Plain \cup {"boom", "off"}

Range(s) == {s[i] : i \in DOMAIN s}

Count(s, x) == Cardinality({i \in DOMAIN s : s[i] = x})

(***************************************************************************)
(* The heap the operations work on, and the observations they build up.    *)
(***************************************************************************)
NoneFired == [ev \in Events |-> 0]

Heap == [cb |-> callbacks, stored |-> stored, res |-> res, nfun |-> nfun,
         value |-> value, log |-> <<>>, fired |-> NoneFired, exc |-> "none",
         ret |-> None]

Raise(h, e) == [h EXCEPT !.exc = e]

\* A list.remove that drops the last item equal to x instead of the first.
ListRemoveLast(s, x) ==
    LET i == CHOOSE k \in DOMAIN s :
                 s[k] = x /\ \A j \in (k + 1)..Len(s) : s[j] # x
    IN  SubSeq(s, 1, i - 1) \o SubSeq(s, i + 1, Len(s))

\* list.remove(x) when x is in the list: drops the first item equal to x.
ListRemove(s, x) ==
    LET i == CHOOSE k \in DOMAIN s : s[k] = x /\ \A j \in 1..(k - 1) : s[j] # x
    IN  SubSeq(s, 1, i - 1) \o SubSeq(s, i + 1, Len(s))

\* Event.add_listener
AddTo(h, ev, f) == [h EXCEPT !.cb[ev] = Append(@, f)]

\* Event.remove_listener: list.remove raises ValueError when f is absent.
RemoveFrom(h, ev, f) ==
    IF f \in Range(h.cb[ev])
    THEN [h EXCEPT !.cb[ev] = ListRemove(@, f)]
    ELSE Raise(h, "ValueError")

RECURSIVE CallFrom(_, _, _)
RECURSIVE Invoke(_, _)
RECURSIVE CallFromOnce(_, _, _)
RECURSIVE CallFromIsolated(_, _, _)

\* Event.call
Call(h, ev) == CallFrom([h EXCEPT !.fired[ev] = @ + 1], ev, 0)

\* A cache_clear that does nothing when the cache is already cleared.
CacheClearIfStored(h) ==
    IF h.stored
    THEN Call([h EXCEPT !.stored = FALSE, !.res = None], "cache_cleared")
    ELSE h

\* A cache_clear that leaves the old result in res.
CacheClearKeepRes(h) == Call([h EXCEPT !.stored = FALSE], "cache_cleared")

\* StoredFunc.cache_clear
CacheClear(h) ==
    Call([h EXCEPT !.stored = FALSE, !.res = None], "cache_cleared")

\* A change_value that takes the master's value and does not fire changed.
ChangeValueSilent(h, o) == [h EXCEPT !.value[o] = h.value[master[o]]]

\* Slave.change_value
ChangeValue(h, o) == Call([h EXCEPT !.value[o] = h.value[master[o]]], o)

\* f(): one callback.
Invoke(h, f) ==
    LET h1 == [h EXCEPT !.log = Append(@, f)]
    IN  CASE f \in Plain -> h1
          [] f = "boom" -> Raise(h1, "Boom")
          [] f = "off" -> RemoveFrom(h1, "e", "off")
          [] f = "refire" -> Call(h1, "dep1")
          [] f = "cache_clear" -> CacheClear(h1)
          [] f \in ChangeValues -> ChangeValue(h1, SelfOf(f))

\* An Event.call that invokes a callback subscribed several times only once.
CallFromOnce(h, ev, i) ==
    IF h.exc # "none" \/ i >= Len(h.cb[ev])
    THEN h
    ELSE IF h.cb[ev][i + 1] \in Range(SubSeq(h.cb[ev], 1, i))
         THEN CallFromOnce(h, ev, i + 1)
         ELSE CallFromOnce(Invoke(h, h.cb[ev][i + 1]), ev, i + 1)

\* An Event.call that catches what a callback raises and goes on.
CallFromIsolated(h, ev, i) ==
    IF i >= Len(h.cb[ev])
    THEN h
    ELSE CallFromIsolated([Invoke(h, h.cb[ev][i + 1]) EXCEPT !.exc = "none"],
                          ev, i + 1)

\* The loop of Event.call, with the list iterator at position i.  The iterator
\* reads the live list, and an exception leaves the loop.
CallFrom(h, ev, i) ==
    IF h.exc # "none" \/ i >= Len(h.cb[ev])
    THEN h
    ELSE CallFrom(Invoke(h, h.cb[ev][i + 1]), ev, i + 1)

\* A StoredFunc.__call__ that ignores the cache and always calls fun.
StoredCallAlways(h) ==
    LET h1 == [h EXCEPT !.nfun = @ + 1, !.res = h.nfun + 1, !.stored = TRUE]
        h2 == Call(h1, "changed")
    IN  IF h2.exc = "none" THEN [h2 EXCEPT !.ret = h2.res] ELSE h2

\* StoredFunc.__call__: fun() yields 1, 2, 3, ...; the value returned is
\* self.res as it is read after changed.call() has returned.
StoredCall(h) ==
    IF ~h.stored
    THEN LET h1 == [h EXCEPT !.nfun = @ + 1, !.res = h.nfun + 1,
                             !.stored = TRUE]
             h2 == Call(h1, "changed")
         IN  IF h2.exc = "none" THEN [h2 EXCEPT !.ret = h2.res] ELSE h2
    ELSE [h EXCEPT !.ret = h.res]

\* What an operation leaves behind.
Commit(h) ==
    /\ callbacks' = h.cb
    /\ stored' = h.stored
    /\ res' = h.res
    /\ nfun' = h.nfun
    /\ value' = h.value
    /\ log' = h.log
    /\ fired' = h.fired
    /\ exc' = h.exc

(***************************************************************************)
(* The state after the module is loaded and the objects are made: the      *)
(* Event e = Event(), the StoredFunc sf = StoredFunc(fun, event_list), the *)
(* Master m = Master(v), and the classes, each with its empty _instances.  *)
(***************************************************************************)
\* The event_list of sf: the watched events, each named once.
EventLists == {<<"dep1">>, <<"dep1", "dep2">>}

\* class A(StoreInstances), class B(A), class U(Unique), class V(U)
Classes == {"A", "B", "U", "V"}

UniqueClasses == {"U", "V"}

Init ==
    /\ \E event_list \in EventLists :
         callbacks = [ev \in Events |->
             IF ev \in Range(event_list) THEN <<"cache_clear">> ELSE <<>>]
    /\ stored = FALSE
    /\ res = None
    /\ nfun = 0
    /\ value = [o \in Objs |-> IF o = "m" THEN FloatV(32) ELSE NoValue]
    /\ master = [o \in Slaves |-> "none"]
    /\ made = {}
    /\ instances = [c \in Classes |-> <<>>]
    /\ nextId = 1
    /\ op = [name |-> "init", arg |-> "-", obj |-> 0]
    /\ log = <<>>
    /\ fired = NoneFired
    /\ exc = "none"
    /\ ret = None
    /\ results = <<>>
    /\ ename = "Event"
    /\ hist = <<>>
    /\ born = [c \in Classes |-> <<>>]
    /\ dead = {}

(***************************************************************************)
(* Event: the operations on the free-standing event e.                     *)
(***************************************************************************)
\* e.add_listener(f)
AddListener(f) ==
    /\ Len(callbacks["e"]) < MaxLen
    /\ Commit(AddTo(Heap, "e", f))
    /\ op' = [name |-> "add_listener", arg |-> f, obj |-> 0]
    /\ UNCHANGED <<results, ename, master, made, instances, nextId, ret,
                   hist, born, dead>>

\* e.remove_listener(f)
RemoveListener(f) ==
    /\ Commit(RemoveFrom(Heap, "e", f))
    /\ op' = [name |-> "remove_listener", arg |-> f, obj |-> 0]
    /\ UNCHANGED <<results, ename, master, made, instances, nextId, ret,
                   hist, born, dead>>

\* e.call()
Fire ==
    /\ Commit(Call(Heap, "e"))
    /\ op' = [name |-> "call", arg |-> "e", obj |-> 0]
    /\ UNCHANGED <<results, ename, master, made, instances, nextId, ret,
                   hist, born, dead>>

\* Event.__iadd__: return self.add_listener(fun), and add_listener returns
\* nothing, so the value returned is None.
IAddOn(h, f) == [AddTo(h, "e", f) EXCEPT !.ret = None]

\* Event.__isub__: return self.remove_listener(fun), None as well.
ISubOn(h, f) == [RemoveFrom(h, "e", f) EXCEPT !.ret = None]

\* What a name denotes after an augmented assignment e += f or e -= f: the
\* value the method returned, unless it raised.
Bound(h) ==
    IF h.exc # "none" THEN ename
    ELSE IF h.ret = None THEN "None" ELSE "Event"

\* e += f, while the name e denotes the Event.  (The other operations reach
\* the Event object through any reference to it.)
IAdd(f) ==
    /\ ename = "Event"
    /\ Len(callbacks["e"]) < MaxLen
    /\ LET h == IAddOn(Heap, f)
       IN  Commit(h) /\ ename' = Bound(h)
    /\ op' = [name |-> "iadd", arg |-> f, obj |-> 0]
    /\ UNCHANGED <<results, master, made, instances, nextId, ret, hist, born,
                   dead>>

\* e -= f, while the name e denotes the Event
ISub(f) ==
    /\ ename = "Event"
    /\ LET h == ISubOn(Heap, f)
       IN  Commit(h) /\ ename' = Bound(h)
    /\ op' = [name |-> "isub", arg |-> f, obj |-> 0]
    /\ UNCHANGED <<results, master, made, instances, nextId, ret, hist, born,
                   dead>>

NextEvent ==
    \/ \E f \in UserCallbacks : AddListener(f)
    \/ \E f \in UserCallbacks : RemoveListener(f)
    \/ Fire
    \/ \E f \in UserCallbacks : IAdd(f)
    \/ \E f \in UserCallbacks : ISub(f)

SpecEvent == Init /\ [][NextEvent]_vars

\* A list none of whose callbacks subscribes or unsubscribes while e fires.
NoEdit(s) == "off" \notin Range(s)

\* C7: when e.call() runs over callbacks that neither raise nor edit the
\* subscriber list, it returns normally having invoked exactly the subscribed
\* callbacks, in subscription order, one invocation per registration (the log
\* of the call is the callback list itself), and the list is as it was.
C7_CallInvokesAllInOrder ==
    [][(op'.name = "call" /\ Range(callbacks["e"]) \subseteq Plain)
        => /\ log' = callbacks["e"]
           /\ exc' = "none"
           /\ fired'["e"] = 1
           /\ callbacks'["e"] = callbacks["e"]]_vars

\* A call that has invoked f at its two positions, around g.
C7_Witness ==
    /\ op.name = "call"
    /\ callbacks["e"] = <<"f", "g", "f">>
    /\ log = <<"f", "g", "f">>

\* C8: add_listener appends; a fire over callbacks that do not edit the list
\* and do not raise invokes f once per subscription of f, and no fire invokes
\* a callback that is not subscribed; remove_listener of a subscribed callback
\* drops its first occurrence only and keeps the order of the others;
\* remove_listener of a callback that is not subscribed raises ValueError and
\* leaves the list as it was.
C8_SubscribeUnsubscribe ==
    [][LET old == callbacks["e"]
           new == callbacks'["e"]
           f == op'.arg
       IN  /\ op'.name = "add_listener" => new = Append(old, f)
           /\ op'.name = "call" =>
                 /\ \A g \in UserCallbacks \ Range(old) : g \notin Range(log')
                 /\ Range(old) \subseteq Plain =>
                       \A g \in UserCallbacks : Count(log', g) = Count(old, g)
           /\ (op'.name = "remove_listener" /\ f \in Range(old)) =>
                 /\ exc' = "none"
                 /\ \E i \in DOMAIN old :
                       /\ old[i] = f
                       /\ \A j \in 1..(i - 1) : old[j] # f
                       /\ Len(new) = Len(old) - 1
                       /\ \A j \in DOMAIN new :
                             new[j] = IF j < i THEN old[j] ELSE old[j + 1]
           /\ (op'.name = "remove_listener" /\ f \notin Range(old)) =>
                 /\ exc' = "ValueError"
                 /\ new = old]_vars

\* remove_listener("f") has dropped the first "f" of <<"f", "g", "f">>: the
\* second "f" is still subscribed, behind "g".
C8_Witness ==
    /\ op = [name |-> "remove_listener", arg |-> "f", obj |-> 0]
    /\ exc = "none"
    /\ callbacks["e"] = <<"g", "f">>

\* C9: when a callback raises during e.call(), over callbacks that do not edit
\* the subscriber list, the exception reaches the caller, the callbacks before
\* the raising one have each been invoked once, in order, and the callbacks
\* subscribed after it have not been invoked.
C9_RaiseAbortsCall ==
    [][(op'.name = "call" /\ NoEdit(callbacks["e"])) =>
         LET old == callbacks["e"]
         IN  /\ "boom" \in Range(old) <=> exc' = "Boom"
             /\ exc' = "Boom" =>
                   \E k \in DOMAIN old :
                       /\ old[k] = "boom"
                       /\ \A j \in 1..(k - 1) : old[j] # "boom"
                       /\ log' = SubSeq(old, 1, k)
             /\ callbacks'["e"] = old]_vars

\* A call in which "boom" raised after "f" ran and before "g" could.
C9_Witness ==
    /\ op.name = "call"
    /\ exc = "Boom"
    /\ callbacks["e"] = <<"f", "boom", "g">>
    /\ log = <<"f", "boom">>

\* C17: in a fire in which no callback raises, every callback that was
\* subscribed when call() began and is not unsubscribed before its turn is
\* invoked once per subscription.  ("off" unsubscribes only itself, so this
\* is every callback that only returns.)
C17_EditsSkipNothing ==
    [][(op'.name = "call" /\ "boom" \notin Range(callbacks["e"])) =>
         \A g \in Plain : Count(log', g) = Count(callbacks["e"], g)]_vars

\* C19: after e += f, and after an e -= f that does not raise, the name e
\* denotes the Event, and the callback list of the Event is the one
\* add_listener(f), resp. remove_listener(f), produces.
C19_SugarKeepsEvent ==
    [][/\ op'.name = "iadd" =>
             /\ callbacks'["e"] = Append(callbacks["e"], op'.arg)
             /\ ename' = "Event"
       /\ (op'.name = "isub" /\ exc' = "none") =>
             /\ Len(callbacks'["e"]) = Len(callbacks["e"]) - 1
             /\ ename' = "Event"]_vars

(***************************************************************************)
(* StoredFunc: sf = StoredFunc(fun, event_list), made in Init.             *)
(***************************************************************************)
\* Whether ev is one of the events sf watches (cache_clear listens to it).
Watched(ev) == "cache_clear" \in Range(callbacks[ev])

\* sf()
SFInvoke ==
    /\ Len(hist) < MaxOps
    /\ LET h == StoredCall(Heap)
       IN  /\ Commit(h)
           /\ ret' = h.ret
           /\ hist' = Append(hist,
                 [op |-> "invoke", called |-> h.nfun > nfun, ret |-> h.ret,
                  inval |-> \E ev \in DepEvents : Watched(ev) /\ h.fired[ev] > 0,
                  raised |-> h.exc # "none"])
    /\ op' = [name |-> "invoke", arg |-> "sf", obj |-> 0]
    /\ UNCHANGED <<results, ename, master, made, instances, nextId, born,
                   dead>>

\* ev.call(), for an event that may be in sf's event_list
FireDep(ev) ==
    /\ Len(hist) < MaxOps
    /\ LET h == Call(Heap, ev)
       IN  /\ Commit(h)
           /\ hist' = Append(hist,
                 [op |-> "fire", called |-> h.nfun > nfun, ret |-> None,
                  inval |-> Watched(ev), raised |-> h.exc # "none"])
    /\ op' = [name |-> "fire", arg |-> ev, obj |-> 0]
    /\ UNCHANGED <<results, ename, master, made, instances, nextId, ret,
                   born, dead>>

\* sf.changed.add_listener(f), sf.cache_cleared.add_listener(f)
Subscribe(ev, f) ==
    /\ Len(callbacks[ev]) < MaxSub
    /\ Commit(AddTo(Heap, ev, f))
    /\ op' = [name |-> "subscribe", arg |-> ev, obj |-> 0]
    /\ UNCHANGED <<results, ename, master, made, instances, nextId, ret,
                   hist, born, dead>>

NextStored ==
    \/ SFInvoke
    \/ \E ev \in DepEvents : FireDep(ev)
    \/ \E f \in {"f", "refire", "boom"} : Subscribe("changed", f)
    \/ Subscribe("cache_cleared", "g")

SpecStored == Init /\ [][NextStored]_vars

\* The invoke operations recorded before position i.
InvokesBefore(i) == {j \in 1..(i - 1) : hist[j].op = "invoke"}

Last(S) == CHOOSE j \in S : \A k \in S : k <= j

\* Whether a watched event has fired since the invoke before position i
\* began (in a fire operation, or from a listener inside that invoke).
InvalidatedBefore(i) ==
    \E j \in Last(InvokesBefore(i))..(i - 1) : hist[j].inval

\* The number of fun() calls made before position i.
ComputedBefore(i) == Cardinality({j \in 1..(i - 1) : hist[j].called})

\* C1: in every sequence of sf() calls and event firings, sf() calls fun()
\* exactly when it is the first sf() or a watched event has fired since the
\* previous sf(); every other sf() returns the value computed last (fun()
\* yields 1, 2, 3, ..., so the number of fun() calls made so far), and a
\* computing sf() during which no watched event fires returns the new value.
\* A fire operation never calls fun().
C1_CachedUntilEventFires ==
    \A i \in DOMAIN hist :
        /\ hist[i].op = "fire" => ~hist[i].called
        /\ hist[i].op = "invoke" =>
              /\ hist[i].called <=>
                    (InvokesBefore(i) = {} \/ InvalidatedBefore(i))
              /\ ~hist[i].called =>
                    /\ ~hist[i].raised
                    /\ hist[i].ret = ComputedBefore(i)
              /\ (hist[i].called /\ ~hist[i].inval /\ ~hist[i].raised) =>
                    hist[i].ret = ComputedBefore(i) + 1

\* sf(), sf(), dep1.call(), sf() have returned 1, 1 and 2.
C1_Witness ==
    /\ Len(hist) = 4
    /\ <<hist[1].op, hist[2].op, hist[3].op, hist[4].op>>
         = <<"invoke", "invoke", "fire", "invoke">>
    /\ hist[3].inval
    /\ <<hist[1].ret, hist[2].ret, hist[4].ret>> = <<1, 1, 2>>
    /\ <<hist[1].called, hist[2].called, hist[4].called>> = <<TRUE, FALSE, TRUE>>

\* C16: every sf() that calls fun() and returns, returns the value that
\* fun() produced in that call (the number of fun() calls made so far),
\* whatever the listeners of changed do.
C16_ReturnsComputedValue ==
    \A i \in DOMAIN hist :
        (hist[i].op = "invoke" /\ hist[i].called /\ ~hist[i].raised)
            => hist[i].ret = ComputedBefore(i) + 1

\* C18: between operations, stored true means res is the result of the most
\* recent fun() call (fun() yields 1, 2, 3, ..., so the number of calls
\* made), and stored false means res is None.
C18_CacheState ==
    /\ stored => (nfun > 0 /\ res = nfun)
    /\ ~stored => res = None

\* The cache holds the second value: it was computed, cleared by a watched
\* event and computed again.
C18_Witness ==
    /\ stored
    /\ res = 2
    /\ \E i \in DOMAIN hist : hist[i].op = "fire" /\ hist[i].inval

\* The number of times the watched events fired in the step's operation.
WatchedFirings(f) ==
    (IF Watched("dep1") THEN f["dep1"] ELSE 0)
    + (IF Watched("dep2") THEN f["dep2"] ELSE 0)

\* C10: in every operation cache_cleared fires once for each firing of a
\* watched event; firing a watched event leaves the cache cleared (stored
\* false, res None) and fires cache_cleared once, whether or not the cache was
\* already cleared, and does not fire changed; sf() on a cleared cache fires
\* changed exactly once and calls fun() once; sf() on a stored cache fires no
\* event at all.
C10_Signals ==
    [][/\ op'.name \in {"fire", "invoke"} =>
             fired'["cache_cleared"] = WatchedFirings(fired')
       /\ (op'.name = "fire" /\ Watched(op'.arg)) =>
             /\ fired'["cache_cleared"] = 1
             /\ fired'["changed"] = 0
             /\ ~stored'
             /\ res' = None
       /\ (op'.name = "fire" /\ ~Watched(op'.arg)) =>
             /\ fired'["cache_cleared"] = 0
             /\ stored' = stored
       /\ (op'.name = "invoke" /\ ~stored) =>
             /\ fired'["changed"] = 1
             /\ nfun' = nfun + 1
       /\ (op'.name = "invoke" /\ stored) =>
             /\ fired' = NoneFired
             /\ nfun' = nfun]_vars

\* A watched event has fired twice in a row: the second firing met a cache
\* that was already cleared and has fired cache_cleared all the same.
C10_Witness ==
    /\ Len(hist) >= 2
    /\ hist[Len(hist)].op = "fire" /\ hist[Len(hist)].inval
    /\ hist[Len(hist) - 1].op = "fire" /\ hist[Len(hist) - 1].inval
    /\ op.name = "fire"
    /\ fired["cache_cleared"] = 1
    /\ log = <<"cache_clear", "g">>

(***************************************************************************)
(* Master and Slave: m = Master(3.2), made in Init, and the slaves built   *)
(* on it or on one another.                                                *)
(***************************************************************************)
\* Slave.__init__(self, master), for the object o and the master p
SlaveInit(h, o, p) ==
    AddTo([h EXCEPT !.value[o] = h.value[p], !.cb[o] = <<>>],
          p, ChangeValueOf[o])

\* SlaveFloat.__init__ and SlaveInt.__init__: Slave.__init__, then the
\* conversion of self.value, which may raise.
TypedInit(h, o, p) ==
    LET h1 == SlaveInit(h, o, p)
        conv == IF Kind[o] = "SlaveInt" THEN ToInt(h1.value[o])
                ELSE ToFloat(h1.value[o])
    IN  IF conv.ok THEN [h1 EXCEPT !.value[o] = conv.v]
        ELSE Raise(h1, "ValueError")

\* m.value = v
MasterSet(h, v) == Call([h EXCEPT !.value["m"] = v], "m")

\* m.value = v
SetValue(v) ==
    /\ Commit(MasterSet(Heap, v))
    /\ op' = [name |-> "set", arg |-> "m", obj |-> 0]
    /\ UNCHANGED <<results, ename, master, made, instances, nextId, ret,
                   hist, born, dead>>

\* o = Slave(p), o = SlaveInt(p) or o = SlaveFloat(p), by the class of o
NewSlave(o, p) ==
    /\ master[o] = "none"
    /\ LET h == IF Kind[o] = "Slave" THEN SlaveInit(Heap, o, p)
                ELSE TypedInit(Heap, o, p)
       IN  /\ Commit(h)
           /\ made' = IF h.exc = "none" THEN made \cup {o} ELSE made
    /\ master' = [master EXCEPT ![o] = p]
    /\ op' = [name |-> "new", arg |-> o, obj |-> 0]
    /\ UNCHANGED <<results, ename, instances, nextId, ret, hist, born, dead>>

NextValue ==
    \/ \E v \in Values : SetValue(v)
    \/ \E o \in Slaves : \E p \in {"m"} \cup made : NewSlave(o, p)

SpecValue == Init /\ [][NextValue]_vars

\* The plain slaves that hang on m through plain slaves only.
OnChain(o) ==
    /\ o \in made
    /\ Kind[o] = "Slave"
    /\ \/ master[o] = "m"
       \/ /\ master[o] \in made
          /\ Kind[master[o]] = "Slave"
          /\ master[master[o]] = "m"

\* C2: after every operation (a construction, an assignment m.value = x)
\* every Slave holds the value of its master, and every Slave of a chain
\* m -> d1 -> d2 holds the value of m, with no call made on the slaves.
C2_PropagationComplete ==
    /\ \A o \in made : Kind[o] = "Slave" => value[o] = value[master[o]]
    /\ \A o \in Slaves : OnChain(o) => value[o] = value["m"]
    /\ op.name = "set" => exc = "none"

\* m.value = -45.3 has returned with the chain m -> d1 -> d2 at -45.3.
C2_Witness ==
    /\ op.name = "set"
    /\ master["d1"] = "m" /\ master["d2"] = "d1"
    /\ {"d1", "d2"} \subseteq made
    /\ value["m"] = FloatV(-453)
    /\ value["d1"] = FloatV(-453)
    /\ value["d2"] = FloatV(-453)
    /\ log = <<"d1.change_value", "d2.change_value">>

\* C3: in every state a constructed SlaveInt holds an int and a constructed
\* SlaveFloat holds a float.
C3_TypedSlavesCoerced ==
    \A o \in made :
        /\ Kind[o] = "SlaveInt" => value[o].t = "int"
        /\ Kind[o] = "SlaveFloat" => value[o].t = "float"

\* The slaves of the typed classes, and the conversion of each.
Typed == {o \in Slaves : Kind[o] # "Slave"}

Conv(o, v) == IF Kind[o] = "SlaveInt" THEN ToInt(v) ELSE ToFloat(v)

\* The slaves whose constructor has raised.
Failed == {o \in Slaves : master[o] # "none" /\ o \notin made}

\* C11: a typed slave fails with a conversion error (ValueError) when the
\* value it mirrors does not convert: the construction on such a master
\* raises, and so does the assignment m.value = v that hands such a value to
\* a constructed typed slave.
C11_ConversionErrorSurfaces ==
    /\ (op.name = "new" /\ op.arg \in Typed
          /\ ~Conv(op.arg, value[master[op.arg]]).ok) => exc = "ValueError"
    /\ (op.name = "set"
          /\ \E o \in made \cap Typed : ~Conv(o, value[master[o]]).ok)
         => exc = "ValueError"

\* C20: when the construction of a typed slave has raised, the changed event
\* of its master does not hold the handler of the failed object, and no
\* later assignment invokes that handler.
C20_FailedConstructionUnsubscribed ==
    \A o \in Failed :
        /\ ChangeValueOf[o] \notin Range(callbacks[master[o]])
        /\ ChangeValueOf[o] \notin Range(log)

(***************************************************************************)
(* StoreInstances and Unique.                                              *)
(***************************************************************************)
\* A class hierarchy without __init_subclass__: cls._instances is, for every
\* class, the one list an ancestor defines.
ListOfShared(c) == "A"

\* The list cls._instances denotes: __init_subclass__ gives every class a
\* list of its own.
ListOf(c) == c

\* A __new__ that puts the new instance at the head of the list.
StoreNewFront(reg, c, inst) == [reg EXCEPT ![ListOf(c)] = <<inst>> \o @]

\* StoreInstances.__new__: cls._instances.append(inst)
StoreNew(reg, c, inst) == [reg EXCEPT ![ListOf(c)] = Append(@, inst)]

\* A Unique.__new__ that always makes and registers a new instance.
UniqueNewAlways(reg, c, inst) == [reg |-> StoreNew(reg, c, inst), ret |-> inst]

\* A Unique.__new__ that, when an instance exists, returns a new object that
\* it does not register.
UniqueNewFresh(reg, c, inst) ==
    IF Len(reg[ListOf(c)]) = 0
    THEN [reg |-> StoreNew(reg, c, inst), ret |-> inst]
    ELSE [reg |-> reg, ret |-> inst]

\* Unique.__new__: the registry and the instance returned.
UniqueNew(reg, c, inst) ==
    IF Len(reg[ListOf(c)]) = 0
    THEN [reg |-> StoreNew(reg, c, inst), ret |-> inst]
    ELSE [reg |-> reg, ret |-> reg[ListOf(c)][1]]

\* A Unique.__new__(cls, *args) that takes arguments and drops them.
UniqueCallDiscard(reg, c, inst, nargs) ==
    LET r == UniqueNew(reg, c, inst)
    IN  [reg |-> r.reg, ret |-> r.ret, exc |-> "none"]

\* c(*args) for a Unique class: Unique.__new__(cls) takes no argument but
\* cls, so a call with arguments raises TypeError before its body runs.
UniqueCall(reg, c, inst, nargs) ==
    IF nargs = 0
    THEN LET r == UniqueNew(reg, c, inst)
         IN  [reg |-> r.reg, ret |-> r.ret, exc |-> "none"]
    ELSE [reg |-> reg, ret |-> None, exc |-> "TypeError"]

\* The class of a constructed object: type(self).
TypeOf(o) == CHOOSE c \in Classes : o \in Range(born[c])

\* c(), for a class c that is not Unique
New(c) ==
    /\ nextId <= MaxObj
    /\ instances' = StoreNew(instances, c, nextId)
    /\ ret' = nextId
    /\ nextId' = nextId + 1
    /\ born' = [born EXCEPT ![c] = Append(@, nextId)]
    /\ exc' = "none"
    /\ op' = [name |-> "new", arg |-> c, obj |-> 0]
    /\ results' = <<>>
    /\ UNCHANGED <<ename, callbacks, stored, res, nfun, value, master, made,
                   log, fired, hist, dead>>

\* c(), for a Unique class c
NewUnique(c) ==
    /\ nextId <= MaxObj
    /\ LET r == UniqueNew(instances, c, nextId)
           isNew == r.reg # instances \/ r.ret = nextId
       IN  /\ instances' = r.reg
           /\ ret' = r.ret
           /\ nextId' = IF isNew THEN nextId + 1 ELSE nextId
           /\ born' = IF isNew THEN [born EXCEPT ![c] = Append(@, nextId)]
                      ELSE born
    /\ exc' = "none"
    /\ op' = [name |-> "new", arg |-> c, obj |-> 0]
    /\ results' = <<>>
    /\ UNCHANGED <<ename, callbacks, stored, res, nfun, value, master, made,
                   log, fired, hist, dead>>

\* A __del__ that ignores an instance that is not in the list.
DelFromQuiet(reg, c, o) ==
    IF o \in Range(reg[ListOf(c)])
    THEN [reg |-> [reg EXCEPT ![ListOf(c)] = ListRemove(@, o)],
          exc |-> "none"]
    ELSE [reg |-> reg, exc |-> "none"]

\* StoreInstances.__del__: type(self)._instances.remove(self)
DelFrom(reg, c, o) ==
    IF o \in Range(reg[ListOf(c)])
    THEN [reg |-> [reg EXCEPT ![ListOf(c)] = ListRemove(@, o)],
          exc |-> "none"]
    ELSE [reg |-> reg, exc |-> "ValueError"]

\* o.__del__(), for an object o constructed earlier
Del(o) ==
    /\ LET r == DelFrom(instances, TypeOf(o), o)
       IN  /\ instances' = r.reg
           /\ exc' = r.exc
           /\ dead' = IF r.exc = "none" THEN dead \cup {o} ELSE dead
    /\ op' = [name |-> "del", arg |-> TypeOf(o), obj |-> o]
    /\ results' = <<>>
    /\ UNCHANGED <<ename, callbacks, stored, res, nfun, value, master, made,
                   nextId, log, fired, ret, hist, born>>

\* c(x), for a Unique class c and one argument x
NewUniqueArgs(c) ==
    /\ nextId <= MaxObj
    /\ LET r == UniqueCall(instances, c, nextId, 1)
           isNew == r.reg # instances \/ r.ret = nextId
       IN  /\ instances' = r.reg
           /\ ret' = r.ret
           /\ exc' = r.exc
           /\ nextId' = IF isNew THEN nextId + 1 ELSE nextId
           /\ born' = IF isNew THEN [born EXCEPT ![c] = Append(@, nextId)]
                      ELSE born
    /\ op' = [name |-> "new_args", arg |-> c, obj |-> 0]
    /\ results' = <<>>
    /\ UNCHANGED <<ename, callbacks, stored, res, nfun, value, master, made,
                   log, fired, hist, dead>>

\* The function that access_all decorates, applied to the instance o with
\* the argument a: its result tells which instance and argument it got.
Fun(o, a) == <<o, a>>

\* An access_all that walks the instances from the last to the first.
AccessAllReversed(reg, c, a) ==
    [i \in 1..Len(reg[ListOf(c)]) |->
        Fun(reg[ListOf(c)][Len(reg[ListOf(c)]) + 1 - i], a)]

\* new_fun of access_all: [fun(i, *args, **kwargs) for i in self._instances]
AccessAll(reg, c, a) ==
    [i \in 1..Len(reg[ListOf(c)]) |-> Fun(reg[ListOf(c)][i], a)]

\* c.g(a), for a method g = access_all(fun) of the class c
Broadcast(c, a) ==
    /\ results' = AccessAll(instances, c, a)
    /\ ret' = None
    /\ exc' = "none"
    /\ op' = [name |-> "access_all", arg |-> c, obj |-> a]
    /\ UNCHANGED <<ename, callbacks, stored, res, nfun, value, master, made,
                   instances, nextId, log, fired, hist, born, dead>>

NextRegistry ==
    \/ \E c \in Classes \ UniqueClasses : New(c)
    \/ \E c \in UniqueClasses : NewUnique(c)
    \/ \E c \in UniqueClasses : NewUniqueArgs(c)
    \/ \E c \in Classes : \E a \in {1} : Broadcast(c, a)
    \/ \E o \in 1..(nextId - 1) : Del(o)

SpecRegistry == Init /\ [][NextRegistry]_vars

\* The instances of c constructed and not destroyed, in construction order.
Survivors(c) == SelectSeq(born[c], LAMBDA o : o \notin dead)

\* C4: after any constructions and destructions, in any order, the
\* _instances list of every class holds exactly the instances of that class
\* that were constructed and not destroyed, each once, in construction order:
\* n - m of them after n constructions and m destructions.
C4_RegistryContents ==
    \A c \in Classes :
        /\ instances[c] = Survivors(c)
        /\ Len(instances[c])
             = Len(born[c]) - Cardinality(dead \cap Range(born[c]))
        /\ \A o \in Range(instances[c]) : Count(instances[c], o) = 1

\* Three instances of A were constructed and the second one was destroyed.
C4_Witness ==
    /\ born["A"] = <<1, 2, 3>>
    /\ dead = {2}
    /\ instances["A"] = <<1, 3>>

\* C5: the registry of a Unique class never holds more than one instance.
C5_AtMostOne == \A c \in UniqueClasses : Len(instances[c]) <= 1

\* U(), A() and U() again: the last call has returned the instance of the
\* first, and the registry of U still holds that one instance.
C5_Witness ==
    /\ op = [name |-> "new", arg |-> "U", obj |-> 0]
    /\ born["U"] = <<1>>
    /\ born["A"] = <<2>>
    /\ instances["U"] = <<1>>
    /\ ret = 1

\* C6: a call c() of a Unique class whose registry holds an instance returns
\* that instance and constructs nothing; a call that finds the registry empty
\* (no instance yet, or the instance was destroyed) constructs an instance
\* that is distinct from every earlier object and registers it.
C6_SameInstanceUntilDestroyed ==
    [][(op'.name = "new" /\ op'.arg \in UniqueClasses) =>
         LET c == op'.arg
         IN  IF instances[c] # <<>>
             THEN /\ ret' = instances[c][1]
                  /\ instances' = instances
                  /\ nextId' = nextId
                  /\ ret' \notin dead
             ELSE /\ \A k \in Classes : ret' \notin Range(born[k])
                  /\ instances' = [instances EXCEPT ![c] = <<ret'>>]
                  /\ \A o \in Range(born[c]) : o \in dead]_vars

\* U() has returned a second instance, made after the first was destroyed.
C6_Witness ==
    /\ op = [name |-> "new", arg |-> "U", obj |-> 0]
    /\ born["U"] = <<1, 2>>
    /\ dead = {1}
    /\ instances["U"] = <<2>>
    /\ ret = 2

\* C12: constructing or destroying an instance of a class, or calling the
\* class in any other way, changes at most the _instances list of that
\* class: the lists of its parent, its subclasses and its siblings stay as
\* they were; a construction does change the list of its own class.
C12_IndependentRegistries ==
    [][op'.name \in {"new", "new_args", "del", "access_all"} =>
         /\ \A k \in Classes \ {op'.arg} : instances'[k] = instances[k]
         /\ (op'.name = "new" /\ op'.arg \notin UniqueClasses) =>
               instances'[op'.arg] = Append(instances[op'.arg], ret')]_vars

\* B() was called after A(): the list of the parent A holds its own instance
\* only, and the list of B the new one.
C12_Witness ==
    /\ op = [name |-> "new", arg |-> "B", obj |-> 0]
    /\ instances["A"] = <<1>>
    /\ instances["B"] = <<2>>

\* C13: o.__del__() on an instance that is not in the list of its class
\* raises ValueError and leaves every list as it was; on an instance that is
\* in the list it raises nothing.
C13_DestroyAbsentFails ==
    [][op'.name = "del" =>
         IF op'.obj \in Range(instances[op'.arg])
         THEN exc' = "none"
         ELSE /\ exc' = "ValueError"
              /\ instances' = instances
              /\ dead' = dead]_vars

\* The same instance was destroyed a second time, while another instance of
\* its class was registered: ValueError, and the other one is still there.
C13_Witness ==
    /\ op.name = "del"
    /\ op.obj \in dead
    /\ exc = "ValueError"
    /\ instances[op.arg] # <<>>

\* C14: a call c.g(a) of a function decorated with access_all returns one
\* result per instance in the list of c, the result of fun on that instance
\* and a, in the order of the list (the empty list for an empty registry),
\* and leaves the registries as they were.
C14_AccessAllInOrder ==
    [][op'.name = "access_all" =>
         /\ Len(results') = Len(instances[op'.arg])
         /\ \A i \in 1..Len(instances[op'.arg]) :
               results'[i] = <<instances[op'.arg][i], op'.obj>>
         /\ instances' = instances]_vars

\* A.g(1) over the instances 1 and 3 of A (2 was destroyed).
C14_Witness ==
    /\ op = [name |-> "access_all", arg |-> "A", obj |-> 1]
    /\ instances["A"] = <<1, 3>>
    /\ results = << <<1, 1>>, <<3, 1>> >>

\* C15 as claimed: c(x) on a Unique class whose instance exists returns that
\* instance without raising, and the registry is unchanged.
C15_ArgsDiscarded ==
    [][(op'.name = "new_args" /\ instances[op'.arg] # <<>>) =>
         /\ exc' = "none"
         /\ ret' = instances[op'.arg][1]
         /\ instances' = instances]_vars

\* C15 as amended: c(x) on a Unique class raises TypeError, whether or not
\* its instance exists; it returns nothing, constructs nothing and leaves
\* the registry unchanged.
C15_ArgsRejected ==
    [][op'.name = "new_args" =>
         /\ exc' = "TypeError"
         /\ ret' = None
         /\ instances' = instances
         /\ nextId' = nextId
         /\ born' = born]_vars

\* U(x) was called while the instance of U was registered.
C15_Witness ==
    /\ op = [name |-> "new_args", arg |-> "U", obj |-> 0]
    /\ instances["U"] = <<1>>
    /\ exc = "TypeError"

====
